---- MODULE Spec2Model ----
(***************************************************************************)
(* krushnna/meeting-scheduler: the four gorm tables behind the services    *)
(* and RecommendationService.GetRecommendations.                           *)
(*                                                                         *)
(* Times are whole minutes of one day (600 is 10:00); 0 is the zero        *)
(* time.Time.  A table is the sequence of its rows in primary-key order,   *)
(* which is also the order a query without ORDER BY returns them in; the   *)
(* auto-increment ID of a row is its position.  Every model embeds         *)
(* gorm.Model, so Delete is a soft delete: the row stays, with DeletedAt   *)
(* set (Deleted = TRUE), and gorm leaves it out of the queries on its own  *)
(* model.                                                                  *)
(***************************************************************************)
EXTENDS Integers, Sequences, FiniteSets, TLC

VARIABLES
    events,          \* table events
    timeSlots,       \* table time_slots
    users,           \* table users
    availabilities,  \* table user_availabilities
    reqEvent,        \* eventID of the last call when it was GetRecommendations, else 0
    recommendations, \* the list that call returned
    err,             \* the error the last service call returned, "" for nil
    call             \* the GetRecommendations call that is between two of its queries

tables == <<events, timeSlots, users, availabilities>>
vars == <<events, timeSlots, users, availabilities, reqEvent, recommendations, err, call>>

----------------------------------------------------------------------------
(* Bounds of the model *)

\* time slots an event has in Spec and EngineSpec
MaxSlots == 2
\* availability records the table holds in Spec and EngineSpec
MaxAvail == 2

\* IDs the events and users tables hand out
EventIDs == {1}
UserIDs == {1, 2}

\* duration_minutes of the stored events
Durations == {60, 45}

\* start/end pairs of the stored time slots and availability records
SlotIntervals == {<<600, 720>>, <<615, 720>>, <<600, 670>>, <<600, 630>>}
AvailIntervals == {<<600, 720>>, <<630, 690>>, <<605, 670>>, <<660, 720>>}

(* Program constants *)

\* the zero time.Time: the value of a time field the payload leaves out
ZeroTime == 0
\* startTime.Add(15 * time.Minute)
StepMinutes == 15
\* ... / float64(len(users)) * 100
Hundred == 100
\* package sort of the Go toolchain the Dockerfile builds with:
\* const maxInsertion = 12 in pdqsort_func
maxInsertion == 12

----------------------------------------------------------------------------
(* time.Time comparisons *)

Before(t, u) == t < u
After(t, u) == t > u
Equal(t, u) == t = u

(* Sequence helpers *)

Range(s) == {s[i] : i \in DOMAIN s}

\* the sequences over S of length at most n
SeqsUpTo(S, n) == UNION {[1..k -> S] : k \in 0..n}

Swap(s, i, j) == [s EXCEPT ![i] = s[j], ![j] = s[i]]

----------------------------------------------------------------------------
(* Repositories: the reads GetRecommendations makes *)

gormRecordNotFound == "record not found"

\* variant of EventFindByID that looks at soft-deleted rows too
EventFindByIDMutUnscoped(id) ==
    IF id \in DOMAIN events
      THEN [event |-> events[id], err |-> ""]
      ELSE [event |-> [ID |-> 0], err |-> gormRecordNotFound]

\* EventRepositoryImpl.FindByID: db.First(&event, id)
EventFindByID(id) ==
    IF id \in DOMAIN events /\ ~events[id].Deleted
      THEN [event |-> events[id], err |-> ""]
      ELSE [event |-> [ID |-> 0], err |-> gormRecordNotFound]

\* EventService.GetEvent: what the call returns in the current state
GetEvent(id) == EventFindByID(id)

\* TimeSlotRepositoryImpl.FindByEventID:
\* db.Where("event_id = ?", eventID).Find(&timeSlots)
TimeSlotFindByEventID(eventID) ==
    SelectSeq(timeSlots, LAMBDA s : s.EventID = eventID /\ ~s.Deleted)

\* variant of AvailabilityFindByEvent that returns soft-deleted records too
AvailabilityFindByEventMutUnscoped(eventID) ==
    SelectSeq(availabilities, LAMBDA a : a.EventID = eventID)

\* UserAvailabilityRepositoryImpl.FindByEvent:
\* db.Where("event_id = ?", eventID).Find(&availabilities)
AvailabilityFindByEvent(eventID) ==
    SelectSeq(availabilities, LAMBDA a : a.EventID = eventID /\ ~a.Deleted)

\* UserAvailabilityRepositoryImpl.FindAllUsersByEvent:
\* users JOIN user_availabilities ON users.id = user_availabilities.user_id
\* WHERE user_availabilities.event_id = ? GROUP BY users.id.  gorm adds
\* "deleted_at IS NULL" for the model queried (users) only: the rows of the
\* joined table are matched whether soft-deleted or not.
FindAllUsersByEvent(eventID) ==
    SelectSeq(users, LAMBDA u :
        /\ ~u.Deleted
        /\ \E i \in DOMAIN availabilities :
              /\ availabilities[i].UserID = u.ID
              /\ availabilities[i].EventID = eventID)

----------------------------------------------------------------------------
(* RecommendationService.GetRecommendations *)

\* variant of AvailabilityMap in which a record replaces the earlier records
\* of its user
AvailabilityMapMutOverwrite(allAvailabilities) ==
    [uid \in {a.UserID : a \in Range(allAvailabilities)} |->
        LET own == SelectSeq(allAvailabilities, LAMBDA a : a.UserID = uid)
        IN  <<own[Len(own)]>>]

\* availabilityMap[avail.UserID] = append(availabilityMap[avail.UserID], avail)
AvailabilityMap(allAvailabilities) ==
    [uid \in {a.UserID : a \in Range(allAvailabilities)} |->
        SelectSeq(allAvailabilities, LAMBDA a : a.UserID = uid)]

\* availabilityMap[user.ID]: nil for a user without an entry
Lookup(availabilityMap, uid) ==
    IF uid \in DOMAIN availabilityMap THEN availabilityMap[uid] ELSE <<>>

\* variant of Fits with the boundaries excluded
FitsMutStrict(avail, startTime, endTime) ==
    After(startTime, avail.StartTime) /\ Before(endTime, avail.EndTime)

\* if !startTime.Before(avail.StartTime) && !endTime.After(avail.EndTime)
Fits(avail, startTime, endTime) ==
    ~Before(startTime, avail.StartTime) /\ ~After(endTime, avail.EndTime)

\* variant of Available that takes the user's intervals together
AvailableMutMerged(availabilityMap, user, startTime, endTime) ==
    LET userAvailabilities == Lookup(availabilityMap, user.ID)
    IN  /\ userAvailabilities # <<>>
        /\ \A t \in startTime..(endTime - 1) :
              \E i \in DOMAIN userAvailabilities :
                  /\ ~Before(t, userAvailabilities[i].StartTime)
                  /\ ~After(t + 1, userAvailabilities[i].EndTime)

\* the loop over the user's availabilities, with its break
Available(availabilityMap, user, startTime, endTime) ==
    LET userAvailabilities == Lookup(availabilityMap, user.ID)
    IN  \E i \in DOMAIN userAvailabilities :
            Fits(userAvailabilities[i], startTime, endTime)

\* the loop over users at one start time: what it appends to matchingUsers
MatchingUsers(fetched, availabilityMap, startTime, endTime) ==
    SelectSeq(fetched, LAMBDA u : Available(availabilityMap, u, startTime, endTime))

\* variant of NonMatchingUsers that appends every user
NonMatchingUsersMutAll(fetched, availabilityMap, startTime, endTime) == fetched

\* ... and to nonMatchingUsers
NonMatchingUsers(fetched, availabilityMap, startTime, endTime) ==
    SelectSeq(fetched, LAMBDA u : ~Available(availabilityMap, u, startTime, endTime))

\* variant of UpdateBest that keeps the earlier start options on a better count
UpdateBestMutKeepTies(best, matchingUsers, nonMatchingUsers, startTime) ==
    IF Len(matchingUsers) > Len(best.bestMatchingUsers)
      THEN [bestMatchingUsers    |-> matchingUsers,
            bestNonMatchingUsers |-> nonMatchingUsers,
            startOptions         |-> Append(best.startOptions, startTime)]
      ELSE IF Len(matchingUsers) = Len(best.bestMatchingUsers) /\ Len(matchingUsers) > 0
        THEN [best EXCEPT !.startOptions = Append(@, startTime)]
        ELSE best

\* variant of UpdateBest in which a start that ties the best count also
\* replaces the best sets
UpdateBestMutLatestSets(best, matchingUsers, nonMatchingUsers, startTime) ==
    IF Len(matchingUsers) > Len(best.bestMatchingUsers)
      THEN [bestMatchingUsers    |-> matchingUsers,
            bestNonMatchingUsers |-> nonMatchingUsers,
            startOptions         |-> <<startTime>>]
      ELSE IF Len(matchingUsers) = Len(best.bestMatchingUsers) /\ Len(matchingUsers) > 0
        THEN [bestMatchingUsers    |-> matchingUsers,
              bestNonMatchingUsers |-> nonMatchingUsers,
              startOptions         |-> Append(best.startOptions, startTime)]
        ELSE best

\* "Update best option if current matching count is better ... If equally
\* good, record additional start option"
UpdateBest(best, matchingUsers, nonMatchingUsers, startTime) ==
    IF Len(matchingUsers) > Len(best.bestMatchingUsers)
      THEN [bestMatchingUsers    |-> matchingUsers,
            bestNonMatchingUsers |-> nonMatchingUsers,
            startOptions         |-> <<startTime>>]
      ELSE IF Len(matchingUsers) = Len(best.bestMatchingUsers) /\ Len(matchingUsers) > 0
        THEN [best EXCEPT !.startOptions = Append(@, startTime)]
        ELSE best

\* var bestMatchingUsers, bestNonMatchingUsers []models.User; var startOptions []time.Time
NoBest == [bestMatchingUsers |-> <<>>, bestNonMatchingUsers |-> <<>>, startOptions |-> <<>>]

\* variant of WalkStarts that tries starts up to the end of the slot
RECURSIVE WalkStartsMutToSlotEnd(_, _, _, _, _, _)
WalkStartsMutToSlotEnd(startTime, maxStartTime, durationMinutes, fetched, availabilityMap, best) ==
    IF After(startTime, maxStartTime + durationMinutes)
      THEN best
      ELSE LET endTime == startTime + durationMinutes
           IN  WalkStartsMutToSlotEnd(
                   startTime + StepMinutes, maxStartTime, durationMinutes,
                   fetched, availabilityMap,
                   UpdateBest(best,
                              MatchingUsers(fetched, availabilityMap, startTime, endTime),
                              NonMatchingUsers(fetched, availabilityMap, startTime, endTime),
                              startTime))

\* variant of WalkStarts that stops before the latest permissible start
RECURSIVE WalkStartsMutExclusiveEnd(_, _, _, _, _, _)
WalkStartsMutExclusiveEnd(startTime, maxStartTime, durationMinutes, fetched, availabilityMap, best) ==
    IF ~Before(startTime, maxStartTime)
      THEN best
      ELSE LET endTime == startTime + durationMinutes
           IN  WalkStartsMutExclusiveEnd(
                   startTime + StepMinutes, maxStartTime, durationMinutes,
                   fetched, availabilityMap,
                   UpdateBest(best,
                              MatchingUsers(fetched, availabilityMap, startTime, endTime),
                              NonMatchingUsers(fetched, availabilityMap, startTime, endTime),
                              startTime))

\* variant of WalkStarts that advances by five minutes
RECURSIVE WalkStartsMutFineSteps(_, _, _, _, _, _)
WalkStartsMutFineSteps(startTime, maxStartTime, durationMinutes, fetched, availabilityMap, best) ==
    IF After(startTime, maxStartTime)
      THEN best
      ELSE LET endTime == startTime + durationMinutes
           IN  WalkStartsMutFineSteps(
                   startTime + 5, maxStartTime, durationMinutes,
                   fetched, availabilityMap,
                   UpdateBest(best,
                              MatchingUsers(fetched, availabilityMap, startTime, endTime),
                              NonMatchingUsers(fetched, availabilityMap, startTime, endTime),
                              startTime))

\* for startTime := slot.StartTime; !startTime.After(maxStartTime);
\*     startTime = startTime.Add(15 * time.Minute) { ... }
RECURSIVE WalkStarts(_, _, _, _, _, _)
WalkStarts(startTime, maxStartTime, durationMinutes, fetched, availabilityMap, best) ==
    IF After(startTime, maxStartTime)
      THEN best
      ELSE LET endTime == startTime + durationMinutes
           IN  WalkStarts(startTime + StepMinutes, maxStartTime, durationMinutes,
                          fetched, availabilityMap,
                          UpdateBest(best,
                                     MatchingUsers(fetched, availabilityMap, startTime, endTime),
                                     NonMatchingUsers(fetched, availabilityMap, startTime, endTime),
                                     startTime))

\* variant of MatchingPercentage that divides the integers
MatchingPercentageMutIntDivision(nMatching, nUsers) ==
    [num |-> (nMatching \div nUsers) * Hundred, den |-> 1]

\* float64(len(bestMatchingUsers)) / float64(len(users)) * 100, kept as the
\* exact quotient num/den (float64 rounding is not modelled)
MatchingPercentage(nMatching, nUsers) ==
    [num |-> nMatching * Hundred, den |-> nUsers]

\* variant of Recommendation that reports the length of the slot as the
\* event's duration
RecommendationMutSlotSpan(slot, durationMinutes, fetched, best) ==
    [TimeSlot           |-> slot,
     MatchingUsers      |-> best.bestMatchingUsers,
     NonMatchingUsers   |-> best.bestNonMatchingUsers,
     MatchingPercentage |-> MatchingPercentage(Len(best.bestMatchingUsers), Len(fetched)),
     EventDuration      |-> slot.EndTime - slot.StartTime,
     StartOptions       |-> best.startOptions]

\* slotDuration < float64(durationMinutes)
TooShort(slot, durationMinutes) ==
    slot.EndTime - slot.StartTime < durationMinutes

Recommendation(slot, durationMinutes, fetched, best) ==
    [TimeSlot           |-> slot,
     MatchingUsers      |-> best.bestMatchingUsers,
     NonMatchingUsers   |-> best.bestNonMatchingUsers,
     MatchingPercentage |-> MatchingPercentage(Len(best.bestMatchingUsers), Len(fetched)),
     EventDuration      |-> durationMinutes,
     StartOptions       |-> best.startOptions]

\* variant of SlotRecommendations that neither skips short slots nor leaves
\* room for the duration before the end of the slot
SlotRecommendationsMutNoRoomForDuration(slot, durationMinutes, fetched, allAvailabilities) ==
    LET best == WalkStarts(slot.StartTime, slot.EndTime, durationMinutes,
                           fetched, AvailabilityMap(allAvailabilities), NoBest)
    IN  IF Len(best.bestMatchingUsers) = 0
          THEN <<>>
          ELSE <<Recommendation(slot, durationMinutes, fetched, best)>>

\* variant of SlotRecommendations that also recommends a slot nobody attends
SlotRecommendationsMutEmitEmpty(slot, durationMinutes, fetched, allAvailabilities) ==
    IF TooShort(slot, durationMinutes) \/ Len(fetched) = 0
      THEN <<>>
      ELSE LET best == WalkStarts(slot.StartTime, slot.EndTime - durationMinutes,
                                  durationMinutes, fetched,
                                  AvailabilityMap(allAvailabilities), NoBest)
           IN  <<Recommendation(slot, durationMinutes, fetched,
                                IF Len(best.bestMatchingUsers) = 0
                                  THEN [best EXCEPT !.bestNonMatchingUsers = fetched]
                                  ELSE best)>>

\* the body of the loop over timeSlots: what it appends to recommendations
SlotRecommendations(slot, durationMinutes, fetched, allAvailabilities) ==
    IF TooShort(slot, durationMinutes)
      THEN <<>>
      ELSE LET maxStartTime == slot.EndTime - durationMinutes
               best == WalkStarts(slot.StartTime, maxStartTime, durationMinutes,
                                  fetched, AvailabilityMap(allAvailabilities), NoBest)
           IN  IF Len(best.bestMatchingUsers) = 0
                 THEN <<>>
                 ELSE <<Recommendation(slot, durationMinutes, fetched, best)>>

\* variant of Recommend that leaves the loop at the first recommendation
RECURSIVE RecommendMutFirstOnly(_, _, _, _)
RecommendMutFirstOnly(slots, durationMinutes, fetched, allAvailabilities) ==
    IF slots = <<>>
      THEN <<>>
      ELSE LET r == SlotRecommendations(Head(slots), durationMinutes, fetched,
                                        allAvailabilities)
           IN  IF r # <<>>
                 THEN r
                 ELSE RecommendMutFirstOnly(Tail(slots), durationMinutes, fetched,
                                            allAvailabilities)

\* for _, slot := range timeSlots { ... }
RECURSIVE Recommend(_, _, _, _)
Recommend(slots, durationMinutes, fetched, allAvailabilities) ==
    IF slots = <<>>
      THEN <<>>
      ELSE SlotRecommendations(Head(slots), durationMinutes, fetched, allAvailabilities)
           \o Recommend(Tail(slots), durationMinutes, fetched, allAvailabilities)

----------------------------------------------------------------------------
(* sort.Slice(recommendations, less) as package sort of Go 1.24 runs it:   *)
(* pdqsort_func.  Up to maxInsertion elements it is insertion sort.  With  *)
(* one element more, the longest list of the model, it chooses a pivot,    *)
(* returns if the list is in order already, and otherwise partitions once  *)
(* and finishes both sides by insertion sort.                              *)

\* variant of Less with the comparison turned round
LessMutAscending(a, b) ==
    a.MatchingPercentage.num * b.MatchingPercentage.den
        < b.MatchingPercentage.num * a.MatchingPercentage.den

\* return recommendations[i].MatchingPercentage > recommendations[j].MatchingPercentage
Less(a, b) ==
    a.MatchingPercentage.num * b.MatchingPercentage.den
        > b.MatchingPercentage.num * a.MatchingPercentage.den

\* the inner loop of insertionSort_func:
\* for j := i; j > a && data.Less(j, j-1); j-- { data.Swap(j, j-1) }
RECURSIVE InsertSorted(_, _)
InsertSorted(sorted, x) ==
    IF sorted # <<>> /\ Less(x, sorted[Len(sorted)])
      THEN Append(InsertSorted(SubSeq(sorted, 1, Len(sorted) - 1), x), sorted[Len(sorted)])
      ELSE Append(sorted, x)

\* insertionSort_func
RECURSIVE InsertionSort(_)
InsertionSort(s) ==
    IF s = <<>>
      THEN <<>>
      ELSE InsertSorted(InsertionSort(SubSeq(s, 1, Len(s) - 1)), s[Len(s)])

\* order2_func: the two positions in order, and whether it counted a swap
Order2(s, a, b) == IF Less(s[b], s[a]) THEN <<b, a, 1>> ELSE <<a, b, 0>>

\* median_func
Median(s, a, b, c) ==
    LET o1 == Order2(s, a, b)
        o2 == Order2(s, o1[2], c)
        o3 == Order2(s, o1[1], o2[1])
    IN  [pivot |-> o3[2], swaps |-> o1[3] + o2[3] + o3[3]]

\* choosePivot_func for 8 <= l < shortestNinther: the median of the elements
\* at l/4, l/4*2 and l/4*3; increasingHint when no swap was counted
\* (decreasingHint takes twelve swaps, more than one median counts)
ChoosePivot(s) ==
    LET q == Len(s) \div 4
        m == Median(s, 1 + q, 1 + 2 * q, 1 + 3 * q)
    IN  [pivot |-> m.pivot, increasingHint |-> m.swaps = 0]

\* partialInsertionSort_func below shortestShifting elements: true exactly
\* when it finds no element out of order, and it moves nothing
PartialInsertionSort(s) == \A i \in 2..Len(s) : ~Less(s[i], s[i - 1])

\* partition_func, the pivot in the first position:
\* for i <= j && data.Less(i, a) { i++ }
RECURSIVE ScanUp(_, _, _)
ScanUp(s, i, j) == IF i <= j /\ Less(s[i], s[1]) THEN ScanUp(s, i + 1, j) ELSE i

\* for i <= j && !data.Less(j, a) { j-- }
RECURSIVE ScanDown(_, _, _)
ScanDown(s, i, j) == IF i <= j /\ ~Less(s[j], s[1]) THEN ScanDown(s, i, j - 1) ELSE j

\* if i > j { data.Swap(j, a); return j } ; data.Swap(i, j); i++; j--
RECURSIVE PartitionLoop(_, _, _)
PartitionLoop(s, i, j) ==
    LET i2 == ScanUp(s, i, j)
        j2 == ScanDown(s, i2, j)
    IN  IF i2 > j2
          THEN [data |-> Swap(s, j2, 1), mid |-> j2]
          ELSE PartitionLoop(Swap(s, i2, j2), i2 + 1, j2 - 1)

\* data.Swap(a, pivot); i, j := a+1, b-1; ...
Partition(s, pivot) == PartitionLoop(Swap(s, 1, pivot), 2, Len(s))

\* pdqsort_func(data, 0, length, bits.Len(length))
Pdqsort(s) ==
    IF Len(s) <= maxInsertion
      THEN InsertionSort(s)
      ELSE LET c == ChoosePivot(s)
           IN  IF c.increasingHint /\ PartialInsertionSort(s)
                 THEN s
                 ELSE LET p == Partition(s, c.pivot)
                      IN  InsertionSort(SubSeq(p.data, 1, p.mid - 1))
                          \o <<p.data[p.mid]>>
                          \o InsertionSort(SubSeq(p.data, p.mid + 1, Len(s)))

\* sort.Slice(recommendations, func(i, j int) bool { ... })
SortSlice(recs) == Pdqsort(recs)

\* the part of GetRecommendations after its four reads: the loop over the
\* slots and the sort
RecommendationsOf(durationMinutes, slots, allAvailabilities, fetched) ==
    SortSlice(Recommend(slots, durationMinutes, fetched, allAvailabilities))

\* result.Error of a query the database fails
gormQueryFailed == "query failed"

\* the query of GetRecommendations the database fails, if any
NoFault == "none"
Faults == {NoFault, "events", "time_slots", "user_availabilities", "users"}

\* return nil, err
Failed(e) == [recommendations |-> <<>>, err |-> e]

\* variant of GetRecommendationsResult that returns what it has when a fetch fails
GetRecommendationsResultMutPartial(eventID, fault) ==
    LET found == EventFindByID(eventID)
    IN  IF fault = "events" \/ found.err # ""
          THEN [recommendations |-> <<>>, err |-> gormRecordNotFound]
          ELSE [recommendations |->
                    RecommendationsOf(found.event.DurationMinutes,
                                      TimeSlotFindByEventID(eventID),
                                      AvailabilityFindByEvent(eventID),
                                      IF fault = "users" THEN <<>>
                                                         ELSE FindAllUsersByEvent(eventID)),
                err |-> IF fault = NoFault THEN "" ELSE gormQueryFailed]

\* variant of GetRecommendationsResult that reports an event without time
\* slots or without users as an error
GetRecommendationsResultMutErrorOnEmpty(eventID, fault) ==
    LET found == EventFindByID(eventID)
    IN  IF fault = "events"
          THEN Failed(gormQueryFailed)
        ELSE IF found.err # ""
          THEN Failed(found.err)
        ELSE IF fault # NoFault
          THEN Failed(gormQueryFailed)
        ELSE IF TimeSlotFindByEventID(eventID) = <<>> \/ FindAllUsersByEvent(eventID) = <<>>
          THEN Failed("nothing to recommend")
        ELSE [recommendations |->
                  RecommendationsOf(found.event.DurationMinutes,
                                    TimeSlotFindByEventID(eventID),
                                    AvailabilityFindByEvent(eventID),
                                    FindAllUsersByEvent(eventID)),
              err |-> ""]

\* variant of GetRecommendationsResult that appends to the list of the
\* call before
GetRecommendationsResultMutAccumulate(eventID, fault) ==
    LET found == EventFindByID(eventID)
    IN  IF fault = "events"
          THEN Failed(gormQueryFailed)
        ELSE IF found.err # ""
          THEN Failed(found.err)
        ELSE IF fault # NoFault
          THEN Failed(gormQueryFailed)
        ELSE [recommendations |->
                  SortSlice(recommendations
                            \o Recommend(TimeSlotFindByEventID(eventID),
                                         found.event.DurationMinutes,
                                         FindAllUsersByEvent(eventID),
                                         AvailabilityFindByEvent(eventID))),
              err |-> ""]

\* GetRecommendations: what it returns
GetRecommendationsResult(eventID, fault) ==
    LET found == EventFindByID(eventID)
    IN  IF fault = "events"
          THEN Failed(gormQueryFailed)
        ELSE IF found.err # ""
          THEN Failed(found.err)
        ELSE IF fault # NoFault
          THEN Failed(gormQueryFailed)
        ELSE [recommendations |->
                  RecommendationsOf(found.event.DurationMinutes,
                                    TimeSlotFindByEventID(eventID),
                                    AvailabilityFindByEvent(eventID),
                                    FindAllUsersByEvent(eventID)),
              err |-> ""]

\* variant of GetRecommendations that deletes the slots too short for the
\* event as it skips them
GetRecommendationsMutPrunes(eventID, fault) ==
    LET r == GetRecommendationsResult(eventID, fault)
    IN  /\ reqEvent' = eventID
        /\ recommendations' = r.recommendations
        /\ err' = r.err
        /\ timeSlots' =
              IF r.err # ""
                THEN timeSlots
                ELSE [i \in DOMAIN timeSlots |->
                        IF /\ timeSlots[i].EventID = eventID
                           /\ TooShort(timeSlots[i], events[eventID].DurationMinutes)
                          THEN [timeSlots[i] EXCEPT !.Deleted = TRUE]
                          ELSE timeSlots[i]]
        /\ UNCHANGED <<events, users, availabilities, call>>

\* RecommendationService.GetRecommendations, one of its queries failing or none
GetRecommendations(eventID, fault) ==
    LET r == GetRecommendationsResult(eventID, fault)
    IN  /\ reqEvent' = eventID
        /\ recommendations' = r.recommendations
        /\ err' = r.err
        /\ UNCHANGED <<tables, call>>

----------------------------------------------------------------------------
(* RecommendationController.GetRecommendations: the HTTP status of its     *)
(* answer to GET /events/{id}/recommendations with a well-formed id        *)

\* http.StatusOK
StatusOK == 200
\* http.StatusInternalServerError
StatusInternalServerError == 500
\* the NotFound response of the API description
StatusNotFound == 404

\* if err != nil { ctx.JSON(http.StatusInternalServerError, ...); return }
\* ctx.JSON(http.StatusOK, recommendations)
ControllerStatus(serviceErr) ==
    IF serviceErr # "" THEN StatusInternalServerError ELSE StatusOK

----------------------------------------------------------------------------
(* The rows of the four tables *)

EventRow(id, title, durationMinutes) ==
    [ID |-> id, Title |-> title, DurationMinutes |-> durationMinutes, Deleted |-> FALSE]

TimeSlotRow(id, eventID, startTime, endTime) ==
    [ID |-> id, EventID |-> eventID, StartTime |-> startTime, EndTime |-> endTime,
     Deleted |-> FALSE]

UserRow(id) == [ID |-> id, Deleted |-> FALSE]

AvailabilityRow(id, userID, eventID, startTime, endTime) ==
    [ID |-> id, UserID |-> userID, EventID |-> eventID,
     StartTime |-> startTime, EndTime |-> endTime, Deleted |-> FALSE]

\* no GetRecommendations call is between two of its queries.  seen is
\* history: what GetRecommendations would have returned from each state the
\* store has been in since the call began
Idle ==
    [pc |-> "idle", eventID |-> 0, durationMinutes |-> 0,
     timeSlots |-> <<>>, allAvailabilities |-> <<>>, seen |-> {}]

\* no call has been answered yet
NoCall == reqEvent = 0 /\ recommendations = <<>> /\ err = "" /\ call = Idle

----------------------------------------------------------------------------
(* The write calls.  A call that fails validation only returns its error;  *)
(* gorm's Updates and Delete with no matching live row return nil.         *)

\* what a call other than GetRecommendations leaves as the last answer
Returns(e) ==
    /\ err' = e
    /\ reqEvent' = 0
    /\ recommendations' = <<>>
    /\ call' = IF call.pc = "idle"
                 THEN call
                 ELSE [call EXCEPT !.seen =
                          @ \cup {GetRecommendationsResult(call.eventID, NoFault)}]

\* the Where("id = ?", id) of Updates and Delete: soft-deleted rows are out of scope
Live(table, id) == id \in DOMAIN table /\ ~table[id].Deleted

SoftDelete(table, id) ==
    IF Live(table, id) THEN [table EXCEPT ![id].Deleted = TRUE] ELSE table

\* variant of CreateEvent that stores the payload as it comes
CreateEventMutNoValidation(title, durationMinutes) ==
    /\ Len(events) < Cardinality(EventIDs)
    /\ events' = Append(events, EventRow(Len(events) + 1, title, durationMinutes))
    /\ Returns("")
    /\ UNCHANGED <<timeSlots, users, availabilities>>

\* EventService.CreateEvent, EventRepositoryImpl.Create
CreateEvent(title, durationMinutes) ==
    IF title = ""
      THEN Returns("event title is required") /\ UNCHANGED tables
    ELSE IF durationMinutes <= 0
      THEN Returns("event duration must be positive") /\ UNCHANGED tables
    ELSE /\ Len(events) < Cardinality(EventIDs)
         /\ events' = Append(events, EventRow(Len(events) + 1, title, durationMinutes))
         /\ Returns("")
         /\ UNCHANGED <<timeSlots, users, availabilities>>

\* EventService.UpdateEvent, EventRepositoryImpl.Update: Updates(event) writes
\* the non-zero fields of the payload
UpdateEvent(id, title, durationMinutes) ==
    IF title = ""
      THEN Returns("event title is required") /\ UNCHANGED tables
    ELSE IF durationMinutes <= 0
      THEN Returns("event duration must be positive") /\ UNCHANGED tables
    ELSE /\ events' = IF Live(events, id)
                        THEN [events EXCEPT
                                ![id].Title = IF title # "" THEN title ELSE @,
                                ![id].DurationMinutes =
                                    IF durationMinutes # 0 THEN durationMinutes ELSE @]
                        ELSE events
         /\ Returns("")
         /\ UNCHANGED <<timeSlots, users, availabilities>>

\* EventService.DeleteEvent, EventRepositoryImpl.Delete
DeleteEvent(id) ==
    /\ events' = SoftDelete(events, id)
    /\ Returns("")
    /\ UNCHANGED <<timeSlots, users, availabilities>>

\* StartTime.After(EndTime) || StartTime.Equal(EndTime)
NotBefore(startTime, endTime) == After(startTime, endTime) \/ Equal(startTime, endTime)

\* TimeSlotService.CreateTimeSlot, TimeSlotRepositoryImpl.Create
CreateTimeSlot(eventID, startTime, endTime) ==
    IF NotBefore(startTime, endTime)
      THEN Returns("start time must be before end time") /\ UNCHANGED tables
    ELSE /\ Len(timeSlots) < MaxSlots
         /\ timeSlots' = Append(timeSlots,
                                TimeSlotRow(Len(timeSlots) + 1, eventID, startTime, endTime))
         /\ Returns("")
         /\ UNCHANGED <<events, users, availabilities>>

\* TimeSlotService.UpdateTimeSlot, TimeSlotRepositoryImpl.Update
UpdateTimeSlot(id, eventID, startTime, endTime) ==
    IF NotBefore(startTime, endTime)
      THEN Returns("start time must be before end time") /\ UNCHANGED tables
    ELSE /\ timeSlots' = IF Live(timeSlots, id)
                           THEN [timeSlots EXCEPT
                                   ![id].EventID = IF eventID # 0 THEN eventID ELSE @,
                                   ![id].StartTime = IF startTime # ZeroTime THEN startTime ELSE @,
                                   ![id].EndTime = IF endTime # ZeroTime THEN endTime ELSE @]
                           ELSE timeSlots
         /\ Returns("")
         /\ UNCHANGED <<events, users, availabilities>>

\* TimeSlotService.DeleteTimeSlot, TimeSlotRepositoryImpl.Delete
DeleteTimeSlot(id) ==
    /\ timeSlots' = SoftDelete(timeSlots, id)
    /\ Returns("")
    /\ UNCHANGED <<events, users, availabilities>>

\* UserService.CreateUser, UserRepositoryImpl.Create
CreateUser ==
    /\ Len(users) < Cardinality(UserIDs)
    /\ users' = Append(users, UserRow(Len(users) + 1))
    /\ Returns("")
    /\ UNCHANGED <<events, timeSlots, availabilities>>

\* AvailabilityService.CreateAvailability, UserAvailabilityRepositoryImpl.Create
CreateAvailability(userID, eventID, startTime, endTime) ==
    IF NotBefore(startTime, endTime)
      THEN Returns("start time must be before end time") /\ UNCHANGED tables
    ELSE /\ Len(availabilities) < MaxAvail
         /\ availabilities' =
                Append(availabilities,
                       AvailabilityRow(Len(availabilities) + 1, userID, eventID,
                                       startTime, endTime))
         /\ Returns("")
         /\ UNCHANGED <<events, timeSlots, users>>

\* AvailabilityService.UpdateAvailability, UserAvailabilityRepositoryImpl.Update
UpdateAvailability(id, userID, eventID, startTime, endTime) ==
    IF NotBefore(startTime, endTime)
      THEN Returns("start time must be before end time") /\ UNCHANGED tables
    ELSE /\ availabilities' =
                IF Live(availabilities, id)
                  THEN [availabilities EXCEPT
                          ![id].UserID = IF userID # 0 THEN userID ELSE @,
                          ![id].EventID = IF eventID # 0 THEN eventID ELSE @,
                          ![id].StartTime = IF startTime # ZeroTime THEN startTime ELSE @,
                          ![id].EndTime = IF endTime # ZeroTime THEN endTime ELSE @]
                  ELSE availabilities
         /\ Returns("")
         /\ UNCHANGED <<events, timeSlots, users>>

\* AvailabilityService.DeleteAvailability, UserAvailabilityRepositoryImpl.Delete
DeleteAvailability(id) ==
    /\ availabilities' = SoftDelete(availabilities, id)
    /\ Returns("")
    /\ UNCHANGED <<events, timeSlots, users>>

----------------------------------------------------------------------------
(* Spec: the methods of the services on a database that starts empty.     *)
(* (AvailabilityService.UpdateAvailability and DeleteAvailability have     *)
(* controllers; routers/router.go registers no route for them.)            *)

\* the requests' payloads
ReqTitles == {"", "standup"}
ReqDurations == Durations \cup {0, -15}
ReqEventIDs == EventIDs \cup {Cardinality(EventIDs) + 1}
ReqSlotIntervals == {<<600, 720>>, <<720, 600>>}
ReqAvailIntervals == {<<600, 720>>, <<600, 675>>, <<600, 600>>}
\* an update may leave start_time out
ReqEndOnly(intervals) == {<<ZeroTime, iv[2]>> : iv \in intervals}

Init ==
    /\ events = <<>>
    /\ timeSlots = <<>>
    /\ users = <<>>
    /\ availabilities = <<>>
    /\ NoCall

Next ==
    \/ \E t \in ReqTitles, d \in ReqDurations : CreateEvent(t, d)
    \/ \E id \in EventIDs, t \in ReqTitles, d \in ReqDurations : UpdateEvent(id, t, d)
    \/ \E id \in EventIDs : DeleteEvent(id)
    \/ \E e \in EventIDs, iv \in ReqSlotIntervals : CreateTimeSlot(e, iv[1], iv[2])
    \/ \E id \in 1..MaxSlots, e \in EventIDs \cup {0}, iv \in ReqSlotIntervals :
            UpdateTimeSlot(id, e, iv[1], iv[2])
    \/ \E id \in 1..MaxSlots : DeleteTimeSlot(id)
    \/ CreateUser
    \/ \E u \in UserIDs, e \in EventIDs, iv \in ReqAvailIntervals :
          CreateAvailability(u, e, iv[1], iv[2])
    \/ \E id \in 1..MaxAvail, u \in UserIDs \cup {0}, e \in EventIDs \cup {0},
          iv \in ReqAvailIntervals \cup ReqEndOnly(ReqAvailIntervals) :
            UpdateAvailability(id, u, e, iv[1], iv[2])
    \/ \E id \in 1..MaxAvail : DeleteAvailability(id)
    \/ \E e \in ReqEventIDs, fault \in Faults : GetRecommendations(e, fault)

Spec == Init /\ [][Next]_vars

----------------------------------------------------------------------------
(* EngineSpec: the recommendation engine on a populated database.  One     *)
(* event, both users, and any time slots and availability records the      *)
(* create calls can have stored for it.                                     *)

EngineInit ==
    /\ \E d \in Durations : events = <<EventRow(1, "standup", d)>>
    /\ users = <<UserRow(1), UserRow(2)>>
    /\ \E iv \in SeqsUpTo(SlotIntervals, MaxSlots) :
          timeSlots = [i \in DOMAIN iv |-> TimeSlotRow(i, 1, iv[i][1], iv[i][2])]
    /\ \E av \in SeqsUpTo(UserIDs \X AvailIntervals, MaxAvail) :
          availabilities = [i \in DOMAIN av |->
              AvailabilityRow(i, av[i][1], 1, av[i][2][1], av[i][2][2])]
    /\ NoCall

EngineNext == \E eventID \in ReqEventIDs, fault \in Faults : GetRecommendations(eventID, fault)

EngineSpec == EngineInit /\ [][EngineNext]_vars

----------------------------------------------------------------------------
(* ManySlotsSpec: the engine on an event with one time slot more than      *)
(* insertion sort takes.  User 1 is available 10:00-12:00 and user 2       *)
(* 11:00-12:00, the meeting takes an hour: a slot 10:00-12:00 suits both   *)
(* (at 11:00), a slot 10:00-11:10 suits user 1 only.                        *)

ManySlots == maxInsertion + 1
ManySlotIntervals == {<<600, 720>>, <<600, 670>>}

ManySlotsInit ==
    /\ events = <<EventRow(1, "standup", 60)>>
    /\ users = <<UserRow(1), UserRow(2)>>
    /\ \E iv \in [1..ManySlots -> ManySlotIntervals] :
          timeSlots = [i \in 1..ManySlots |-> TimeSlotRow(i, 1, iv[i][1], iv[i][2])]
    /\ availabilities = <<AvailabilityRow(1, 1, 1, 600, 720),
                          AvailabilityRow(2, 2, 1, 660, 720)>>
    /\ NoCall

ManySlotsNext == \E eventID \in EventIDs, fault \in Faults : GetRecommendations(eventID, fault)

ManySlotsSpec == ManySlotsInit /\ [][ManySlotsNext]_vars

----------------------------------------------------------------------------
(* ConcurrentSpec: GetRecommendations as the four queries it makes, one    *)
(* after the other and in no transaction, while other requests write.      *)
(* What it does after the last query touches its own variables only.       *)

\* event, err := s.eventRepo.FindByID(eventID); if err != nil { return nil, err }
GetRecommendationsFindByID(eventID) ==
    LET found == EventFindByID(eventID)
    IN  /\ call.pc = "idle"
        /\ IF found.err # ""
             THEN /\ reqEvent' = eventID
                  /\ recommendations' = <<>>
                  /\ err' = found.err
                  /\ call' = [Idle EXCEPT !.eventID = eventID,
                                          !.seen = {Failed(found.err)}]
             ELSE /\ call' = [Idle EXCEPT !.pc = "timeSlots",
                                          !.eventID = eventID,
                                          !.durationMinutes = found.event.DurationMinutes]
                  /\ UNCHANGED <<reqEvent, recommendations, err>>
        /\ UNCHANGED tables

\* timeSlots, err := s.timeSlotRepo.FindByEventID(eventID)
GetRecommendationsFindByEventID ==
    /\ call.pc = "timeSlots"
    /\ call' = [call EXCEPT !.pc = "allAvailabilities",
                            !.timeSlots = TimeSlotFindByEventID(call.eventID)]
    /\ UNCHANGED <<tables, reqEvent, recommendations, err>>

\* allAvailabilities, err := s.availabilityRepo.FindByEvent(eventID)
GetRecommendationsFindByEvent ==
    /\ call.pc = "allAvailabilities"
    /\ call' = [call EXCEPT !.pc = "users",
                            !.allAvailabilities = AvailabilityFindByEvent(call.eventID)]
    /\ UNCHANGED <<tables, reqEvent, recommendations, err>>

\* users, err := s.availabilityRepo.FindAllUsersByEvent(eventID), and the
\* rest of the function
GetRecommendationsFindAllUsersByEvent ==
    /\ call.pc = "users"
    /\ reqEvent' = call.eventID
    /\ recommendations' = RecommendationsOf(call.durationMinutes, call.timeSlots,
                                            call.allAvailabilities,
                                            FindAllUsersByEvent(call.eventID))
    /\ err' = ""
    /\ call' = [Idle EXCEPT !.eventID = call.eventID,
                            !.seen = call.seen
                                \cup {GetRecommendationsResult(call.eventID, NoFault)}]
    /\ UNCHANGED tables

\* the payloads of the concurrent requests
ConcurrentIntervals == {<<600, 720>>}
ConcurrentUpdates == {<<630, 720>>}

ConcurrentInit ==
    /\ events = <<EventRow(1, "standup", 60)>>
    /\ users = <<UserRow(1), UserRow(2)>>
    /\ timeSlots = <<TimeSlotRow(1, 1, 600, 720)>>
    /\ availabilities = <<AvailabilityRow(1, 1, 1, 600, 720)>>
    /\ NoCall

ConcurrentNext ==
    \/ \E eventID \in EventIDs : GetRecommendationsFindByID(eventID)
    \/ GetRecommendationsFindByEventID
    \/ GetRecommendationsFindByEvent
    \/ GetRecommendationsFindAllUsersByEvent
    \/ \E u \in UserIDs, e \in EventIDs, iv \in ConcurrentIntervals :
          CreateAvailability(u, e, iv[1], iv[2])
    \/ \E id \in 1..MaxAvail, iv \in ConcurrentUpdates :
          UpdateAvailability(id, 0, 0, iv[1], iv[2])
    \/ \E id \in 1..MaxAvail : DeleteAvailability(id)
    \/ \E id \in 1..MaxSlots : DeleteTimeSlot(id)
    \/ \E id \in EventIDs, d \in Durations : UpdateEvent(id, "standup", d)

ConcurrentSpec == ConcurrentInit /\ [][ConcurrentNext]_vars

----------------------------------------------------------------------------
(* TwoEventsSpec: the time-slot and availability methods and                *)
(* GetRecommendations over a database that holds two events and two users. *)

TwoEvents == {1, 2}
TwoEventsSlotIntervals == {<<600, 720>>, <<600, 670>>}
TwoEventsAvailIntervals == {<<600, 720>>, <<630, 690>>}

TwoEventsInit ==
    /\ events = <<EventRow(1, "standup", 60), EventRow(2, "review", 45)>>
    /\ users = <<UserRow(1), UserRow(2)>>
    /\ timeSlots = <<>>
    /\ availabilities = <<>>
    /\ NoCall

TwoEventsNext ==
    \/ \E e \in TwoEvents, iv \in TwoEventsSlotIntervals : CreateTimeSlot(e, iv[1], iv[2])
    \/ \E id \in 1..MaxSlots, e \in TwoEvents \cup {0}, iv \in TwoEventsSlotIntervals :
          UpdateTimeSlot(id, e, iv[1], iv[2])
    \/ \E id \in 1..MaxSlots : DeleteTimeSlot(id)
    \/ \E u \in UserIDs, e \in TwoEvents, iv \in TwoEventsAvailIntervals :
          CreateAvailability(u, e, iv[1], iv[2])
    \/ \E id \in 1..MaxAvail, e \in TwoEvents \cup {0}, iv \in TwoEventsAvailIntervals :
          UpdateAvailability(id, 0, e, iv[1], iv[2])
    \/ \E id \in 1..MaxAvail : DeleteAvailability(id)
    \/ \E e \in TwoEvents : GetRecommendations(e, NoFault)

TwoEventsSpec == TwoEventsInit /\ [][TwoEventsNext]_vars

----------------------------------------------------------------------------
(* What the specification says of an answer, in terms of the stored rows   *)

\* the last call was GetRecommendations and it returned a list
Answered == reqEvent # 0 /\ err = ""

\* the duration of the event asked about
AnsweredDuration == events[reqEvent].DurationMinutes

\* the IDs of a list of users
IDs(list) == {list[i].ID : i \in DOMAIN list}

\* the start times tried in a slot: the slot's start plus multiples of the
\* step, up to the latest start that leaves room for the duration
CandidateStarts(slot, d) ==
    {t \in {slot.StartTime + StepMinutes * k :
                k \in 0..((slot.EndTime - slot.StartTime) \div StepMinutes)} :
        t + d <= slot.EndTime}

\* user u has an existing availability interval for event e that contains
\* [s, s + d], boundaries included
HasInterval(u, e, s, d) ==
    \E i \in DOMAIN availabilities :
        /\ ~availabilities[i].Deleted
        /\ availabilities[i].UserID = u
        /\ availabilities[i].EventID = e
        /\ availabilities[i].StartTime <= s
        /\ s + d <= availabilities[i].EndTime

\* the users fetched for the event who can attend a meeting of d minutes at s
Attending(e, s, d) ==
    {u \in IDs(FindAllUsersByEvent(e)) : HasInterval(u, e, s, d)}

AttendCount(e, s, d) == Cardinality(Attending(e, s, d))

\* the existing time slots of the event
SlotsOf(e) == Range(TimeSlotFindByEventID(e))

\* the recommendations made for a slot
RecsFor(slot) == {i \in DOMAIN recommendations : recommendations[i].TimeSlot.ID = slot.ID}

\* percentage p is at least percentage q
AtLeast(p, q) == p.num * q.den >= q.num * p.den

----------------------------------------------------------------------------
\* C1: in every recommendation the attending set has the largest size any
\* candidate start of the slot reaches, and the start options are exactly
\* the candidate starts that reach it.
C1_BestCountAndOptions ==
    Answered =>
        \A i \in DOMAIN recommendations :
            LET r == recommendations[i]
                cands == CandidateStarts(r.TimeSlot, AnsweredDuration)
                n == Cardinality(IDs(r.MatchingUsers))
            IN  /\ \A s \in cands : AttendCount(reqEvent, s, AnsweredDuration) <= n
                /\ Range(r.StartOptions) =
                       {s \in cands : AttendCount(reqEvent, s, AnsweredDuration) = n}
                /\ r.StartOptions # <<>>

\* a slot where the count rises to its maximum after a lesser non-zero
\* count, stays there for two starts and falls again
C1_Witness ==
    /\ Answered
    /\ \E i \in DOMAIN recommendations :
          LET r == recommendations[i]
              cands == CandidateStarts(r.TimeSlot, AnsweredDuration)
              n == Len(r.MatchingUsers)
          IN  /\ Len(r.StartOptions) >= 2
              /\ \E s \in cands :
                    /\ s < r.StartOptions[1]
                    /\ AttendCount(reqEvent, s, AnsweredDuration) \in 1..(n - 1)
              /\ \E s \in cands : s > r.StartOptions[Len(r.StartOptions)]

UsersWithAvailability(e) ==
    {u \in IDs(SelectSeq(users, LAMBDA x : ~x.Deleted)) :
        \E i \in DOMAIN availabilities :
            /\ ~availabilities[i].Deleted
            /\ availabilities[i].UserID = u
            /\ availabilities[i].EventID = e}

\* C3: after any sequence of availability Create, Update and Delete calls,
\* the users in a recommendation (attending or not) are exactly the users
\* who have an existing availability record for the event, and they are
\* the denominator of the percentage.
C3_UsersAreThoseWithAvailability ==
    Answered =>
        \A i \in DOMAIN recommendations :
            LET r == recommendations[i]
            IN  /\ IDs(r.MatchingUsers) \cup IDs(r.NonMatchingUsers)
                       = UsersWithAvailability(reqEvent)
                /\ r.MatchingPercentage.den = Cardinality(UsersWithAvailability(reqEvent))

C5_SortedDescending ==
    Answered =>
        \A i, j \in DOMAIN recommendations :
            i < j => AtLeast(recommendations[i].MatchingPercentage,
                             recommendations[j].MatchingPercentage)

\* the later slot has the strictly higher percentage and comes first
C5_Witness ==
    /\ Answered
    /\ Len(recommendations) >= 2
    /\ recommendations[1].TimeSlot.ID > recommendations[2].TimeSlot.ID
    /\ ~AtLeast(recommendations[2].MatchingPercentage,
                recommendations[1].MatchingPercentage)

\* C6: recommendations of equal percentage keep the order in which they
\* were produced, which is the order of their time slots.
C6_StableRanking ==
    Answered =>
        \A i, j \in DOMAIN recommendations :
            (/\ i < j
             /\ AtLeast(recommendations[i].MatchingPercentage,
                        recommendations[j].MatchingPercentage)
             /\ AtLeast(recommendations[j].MatchingPercentage,
                        recommendations[i].MatchingPercentage))
                => recommendations[i].TimeSlot.ID < recommendations[j].TimeSlot.ID

\* C7: a time slot whose span is shorter than the event's duration is in
\* no recommendation, whatever availability there is; every slot that is in
\* one spans at least the duration.
C7_ShortSlotsSkipped ==
    Answered =>
        /\ \A slot \in SlotsOf(reqEvent) :
              slot.EndTime - slot.StartTime < AnsweredDuration => RecsFor(slot) = {}
        /\ \A i \in DOMAIN recommendations :
              recommendations[i].TimeSlot.EndTime - recommendations[i].TimeSlot.StartTime
                  >= AnsweredDuration

\* a too-short slot at whose start a fetched user could attend the whole
\* meeting, next to a slot that is recommended
C7_Witness ==
    /\ Answered
    /\ recommendations # <<>>
    /\ \E slot \in SlotsOf(reqEvent) :
          /\ slot.EndTime - slot.StartTime < AnsweredDuration
          /\ Attending(reqEvent, slot.StartTime, AnsweredDuration) # {}

\* C8: for an event of positive duration, every start option s of a
\* recommendation has slot.start <= s and s + duration <= slot.end.
C8_OptionsInsideSlot ==
    (Answered /\ AnsweredDuration > 0) =>
        \A i \in DOMAIN recommendations :
            LET r == recommendations[i]
            IN  \A k \in DOMAIN r.StartOptions :
                    /\ r.TimeSlot.StartTime <= r.StartOptions[k]
                    /\ r.StartOptions[k] + AnsweredDuration <= r.TimeSlot.EndTime

\* a recommendation whose attending users stay available past the end of
\* the slot: the next start after its last option would still suit them
C8_Witness ==
    /\ Answered
    /\ \E i \in DOMAIN recommendations :
          LET r == recommendations[i]
              last == r.StartOptions[Len(r.StartOptions)]
          IN  /\ last + StepMinutes + AnsweredDuration > r.TimeSlot.EndTime
              /\ AttendCount(reqEvent, last + StepMinutes, AnsweredDuration)
                     = Len(r.MatchingUsers)

\* C9: a slot is recommended exactly when it is long enough and some tried
\* candidate start has an attending user, also when users have submitted
\* availability; a recommendation has an attending user and a start option.
C9_NoEmptyRecommendation ==
    Answered =>
        /\ \A slot \in SlotsOf(reqEvent) :
              RecsFor(slot) # {} <=>
                  /\ slot.EndTime - slot.StartTime >= AnsweredDuration
                  /\ \E s \in CandidateStarts(slot, AnsweredDuration) :
                        Attending(reqEvent, s, AnsweredDuration) # {}
        /\ \A i \in DOMAIN recommendations :
              /\ recommendations[i].MatchingUsers # <<>>
              /\ recommendations[i].StartOptions # <<>>

\* users have submitted availability, and a slot long enough for the
\* meeting is not recommended
C9_Witness ==
    /\ Answered
    /\ FindAllUsersByEvent(reqEvent) # <<>>
    /\ \E slot \in SlotsOf(reqEvent) :
          /\ slot.EndTime - slot.StartTime >= AnsweredDuration
          /\ RecsFor(slot) = {}

\* C10: at a candidate start s a fetched user counts as attending exactly
\* when one of their intervals has start <= s and s + duration <= end, the
\* boundaries included; so a user with no interval never attends, and the
\* attending users of a recommendation are those who can attend at its
\* first start option.
C10_InclusiveContainment ==
    Answered =>
        LET fetched == FindAllUsersByEvent(reqEvent)
            availabilityMap == AvailabilityMap(AvailabilityFindByEvent(reqEvent))
        IN  /\ \A slot \in SlotsOf(reqEvent) :
                  \A s \in CandidateStarts(slot, AnsweredDuration) :
                      \A k \in DOMAIN fetched :
                          Available(availabilityMap, fetched[k], s, s + AnsweredDuration)
                              <=> HasInterval(fetched[k].ID, reqEvent, s, AnsweredDuration)
            /\ \A i \in DOMAIN recommendations :
                  IDs(recommendations[i].MatchingUsers) =
                      Attending(reqEvent, recommendations[i].StartOptions[1], AnsweredDuration)
            /\ \A u \in IDs(users) \ UsersWithAvailability(reqEvent) :
                  \A i \in DOMAIN recommendations :
                      u \notin IDs(recommendations[i].MatchingUsers)

\* a user attends on an interval that is exactly the meeting, both
\* boundaries equal, and has no other record; another user has no record
C10_Witness ==
    /\ Answered
    /\ IDs(users) \ UsersWithAvailability(reqEvent) # {}
    /\ \E i \in DOMAIN recommendations :
          LET r == recommendations[i]
              s == r.StartOptions[1]
          IN  \E k \in DOMAIN r.MatchingUsers :
                  \A a \in Range(AvailabilityFindByEvent(reqEvent)) :
                      a.UserID = r.MatchingUsers[k].ID =>
                          a.StartTime = s /\ a.EndTime = s + AnsweredDuration

\* C11: a call that returns an error returns no recommendations, whether
\* the event lookup or one of the three fetches failed; never an error
\* together with a non-empty list.
C11_ErrorMeansNoList ==
    (reqEvent # 0 /\ err # "") => recommendations = <<>>

\* a fetch failed for an existing event whose slots would be recommended
C11_Witness ==
    /\ reqEvent # 0
    /\ err = gormQueryFailed
    /\ EventFindByID(reqEvent).err = ""
    /\ GetRecommendationsResult(reqEvent, NoFault).recommendations # <<>>

\* C12: a request for the recommendations of an event that does not exist
\* (never created, or deleted) is answered with 404 Not Found.
C12_MissingEventIsNotFound ==
    (reqEvent # 0 /\ err = gormRecordNotFound) => ControllerStatus(err) = StatusNotFound

\* C13: for an existing event with no time slots, or with no users having
\* availability, a call whose queries all succeed returns an empty list and
\* no error; no percentage is computed over zero users.
C13_EmptyInputsEmptyResult ==
    /\ (/\ reqEvent # 0
        /\ EventFindByID(reqEvent).err = ""
        /\ err # gormQueryFailed
        /\ SlotsOf(reqEvent) = {} \/ UsersWithAvailability(reqEvent) = {})
           => (err = "" /\ recommendations = <<>>)
    /\ Answered =>
           \A i \in DOMAIN recommendations :
               /\ recommendations[i].MatchingPercentage.den > 0
               /\ FindAllUsersByEvent(reqEvent) # <<>>

\* an existing event with a slot long enough and no user fetched
C13_Witness ==
    /\ Answered
    /\ \E slot \in SlotsOf(reqEvent) :
          slot.EndTime - slot.StartTime >= AnsweredDuration
    /\ FindAllUsersByEvent(reqEvent) = <<>>
    /\ recommendations = <<>>

C15_NoWrites ==
    [][reqEvent' # 0 => tables' = tables]_vars

\* a call has returned recommendations for an event that also has a slot
\* it skipped as too short
C15_Witness ==
    /\ Answered
    /\ recommendations # <<>>
    /\ availabilities # <<>>
    /\ \E slot \in SlotsOf(reqEvent) : TooShort(slot, AnsweredDuration)

\* C16: a call that interleaves with writes returns what would have been
\* computed from the store as it was at one instant during the call.
C16_SingleSnapshot ==
    (call.pc = "idle" /\ reqEvent # 0 /\ call.eventID = reqEvent)
        => [recommendations |-> recommendations, err |-> err] \in call.seen

\* C17: if at some tried candidate start of a slot every user with
\* availability for the event fits, the slot's recommendation has all of
\* them attending, nobody non-attending, percentage 100, and its start
\* options are exactly the tried candidates at which all of them fit.
C17_AllFit ==
    Answered =>
        \A slot \in SlotsOf(reqEvent) :
            LET all == UsersWithAvailability(reqEvent)
                allFit == {s \in CandidateStarts(slot, AnsweredDuration) :
                              \A u \in all : HasInterval(u, reqEvent, s, AnsweredDuration)}
            IN  (all # {} /\ allFit # {}) =>
                    /\ RecsFor(slot) # {}
                    /\ \A i \in RecsFor(slot) :
                          LET r == recommendations[i]
                          IN  /\ IDs(r.MatchingUsers) = all
                              /\ r.NonMatchingUsers = <<>>
                              /\ r.MatchingPercentage.num = Hundred * r.MatchingPercentage.den
                              /\ Range(r.StartOptions) = allFit

\* C18: every stored event has a duration above zero and a title; a
\* CreateEvent or UpdateEvent call whose payload has a duration of zero or
\* less, or no title, returns an error and leaves the events as they were.
C18_EventsValid ==
    /\ [](\A i \in DOMAIN events :
              events[i].DurationMinutes > 0 /\ events[i].Title # "")
    /\ [][\A title \in ReqTitles, durationMinutes \in ReqDurations :
              (/\ title = "" \/ durationMinutes <= 0
               /\ \/ CreateEvent(title, durationMinutes)
                  \/ \E id \in EventIDs : UpdateEvent(id, title, durationMinutes))
                  => (err' # "" /\ events' = events)]_vars

\* an event is stored and the last call was rejected for its duration
C18_Witness ==
    /\ events # <<>>
    /\ err = "event duration must be positive"

\* C19: every stored time slot and every stored availability record has
\* its start strictly before its end, also after an update that carries
\* only one of the two bounds.
C19_StartBeforeEnd ==
    /\ \A i \in DOMAIN timeSlots : timeSlots[i].StartTime < timeSlots[i].EndTime
    /\ \A i \in DOMAIN availabilities :
          availabilities[i].StartTime < availabilities[i].EndTime

\* the minutes of a slot at which a meeting of d minutes could start with
\* at least one fetched user attending, on the grid of tried starts or off it
FeasibleStarts(slot, e, d) ==
    {s \in slot.StartTime..(slot.EndTime - d) : Attending(e, s, d) # {}}

\* C20: the starts tried in a slot are slot.start + 15k for k >= 0 up to
\* slot.end - duration inclusive: every start option is one of them, each
\* of them that reaches the best count is a start option, a slot whose
\* feasible starts all lie between them is not recommended, and a slot
\* with less than 15 minutes to spare is tried at its start only.
C20_QuarterHourGrid ==
    Answered =>
        \A slot \in SlotsOf(reqEvent) :
            LET grid == CandidateStarts(slot, AnsweredDuration)
                feasible == FeasibleStarts(slot, reqEvent, AnsweredDuration)
            IN  /\ \A i \in RecsFor(slot) :
                      LET r == recommendations[i]
                      IN  /\ Range(r.StartOptions) \subseteq grid
                          /\ \A s \in grid :
                                AttendCount(reqEvent, s, AnsweredDuration)
                                        = Len(r.MatchingUsers)
                                    => s \in Range(r.StartOptions)
                          /\ slot.EndTime - slot.StartTime - AnsweredDuration < StepMinutes
                                 => r.StartOptions = <<slot.StartTime>>
                /\ feasible \cap grid # {} => RecsFor(slot) # {}
                /\ feasible \cap grid = {} => RecsFor(slot) = {}

\* a slot in which a user could attend from 10:05 or 10:10 but from no
\* quarter hour, and which is not recommended
C20_Witness ==
    /\ Answered
    /\ \E slot \in SlotsOf(reqEvent) :
          /\ FeasibleStarts(slot, reqEvent, AnsweredDuration) # {}
          /\ FeasibleStarts(slot, reqEvent, AnsweredDuration)
                 \cap CandidateStarts(slot, AnsweredDuration) = {}
          /\ RecsFor(slot) = {}

\* the existing intervals of user u for event e cover every minute of
\* [s, s + d] between them
JointlyCovered(u, e, s, d) ==
    \A t \in s..(s + d - 1) : HasInterval(u, e, t, 1)

\* C21: the intervals of one user are not merged.  A user whose intervals
\* cover [s, s + duration] between them, none of them alone, does not
\* attend at candidate start s: s is a start option only on the count of
\* the other users, and if s is the first start option the user is listed
\* as non-attending.
C21_NoMerging ==
    Answered =>
        LET fetched == FindAllUsersByEvent(reqEvent)
            availabilityMap == AvailabilityMap(AvailabilityFindByEvent(reqEvent))
        IN  \A slot \in SlotsOf(reqEvent) :
                \A s \in CandidateStarts(slot, AnsweredDuration) :
                    \A k \in DOMAIN fetched :
                        (/\ JointlyCovered(fetched[k].ID, reqEvent, s, AnsweredDuration)
                         /\ ~HasInterval(fetched[k].ID, reqEvent, s, AnsweredDuration))
                            => /\ ~Available(availabilityMap, fetched[k], s,
                                             s + AnsweredDuration)
                               /\ \A i \in RecsFor(slot) :
                                     LET r == recommendations[i]
                                     IN  /\ s \in Range(r.StartOptions) =>
                                               Cardinality(
                                                   Attending(reqEvent, s, AnsweredDuration)
                                                       \ {fetched[k].ID})
                                                   = Len(r.MatchingUsers)
                                         /\ s = r.StartOptions[1] =>
                                               fetched[k].ID \in IDs(r.NonMatchingUsers)

\* a recommended slot with a candidate start that two overlapping intervals
\* of a user cover between them, neither alone, and that is no start option
C21_Witness ==
    /\ Answered
    /\ \E slot \in SlotsOf(reqEvent) :
          /\ RecsFor(slot) # {}
          /\ \E s \in CandidateStarts(slot, AnsweredDuration) :
                /\ \E u \in IDs(FindAllUsersByEvent(reqEvent)) :
                      /\ JointlyCovered(u, reqEvent, s, AnsweredDuration)
                      /\ ~HasInterval(u, reqEvent, s, AnsweredDuration)
                /\ \A i \in RecsFor(slot) : s \notin Range(recommendations[i].StartOptions)

\* the orders in which n rows can be returned
Orders(n) == {p \in [1..n -> 1..n] : \A i, j \in 1..n : p[i] = p[j] => i = j}

\* C22: the order in which the time slots are supplied is not significant.
\* From the slots in any order the computation gives the same set of
\* recommendations, and the recommendation of a slot is what the
\* computation gives for that slot alone.
C22_SlotOrderInsignificant ==
    Answered =>
        LET slots == TimeSlotFindByEventID(reqEvent)
            allAvailabilities == AvailabilityFindByEvent(reqEvent)
            fetched == FindAllUsersByEvent(reqEvent)
        IN  /\ \A p \in Orders(Len(slots)) :
                  Range(RecommendationsOf(AnsweredDuration,
                                          [i \in 1..Len(slots) |-> slots[p[i]]],
                                          allAvailabilities, fetched))
                      = Range(recommendations)
            /\ \A k \in DOMAIN slots :
                  Range(RecommendationsOf(AnsweredDuration, <<slots[k]>>,
                                          allAvailabilities, fetched))
                      = {recommendations[i] : i \in RecsFor(slots[k])}

\* two slots are recommended, with different percentages
C22_Witness ==
    /\ Answered
    /\ Len(recommendations) = 2
    /\ ~AtLeast(recommendations[2].MatchingPercentage,
                recommendations[1].MatchingPercentage)
    /\ recommendations[1].StartOptions # recommendations[2].StartOptions

\* C23: each time slot of the event is in at most one recommendation,
\* every recommendation is for a slot the time-slot fetch returns for the
\* event, and its event duration is the event's duration.
C23_OnePerSlot ==
    Answered =>
        /\ \A slot \in SlotsOf(reqEvent) : Cardinality(RecsFor(slot)) <= 1
        /\ \A i \in DOMAIN recommendations :
              /\ recommendations[i].TimeSlot \in SlotsOf(reqEvent)
              /\ recommendations[i].TimeSlot.EventID = reqEvent
              /\ recommendations[i].EventDuration = AnsweredDuration

\* both slots of the event are recommended, one of them longer than the
\* meeting
C23_Witness ==
    /\ Answered
    /\ Len(recommendations) = 2
    /\ \E i \in DOMAIN recommendations :
          recommendations[i].TimeSlot.EndTime - recommendations[i].TimeSlot.StartTime
              > AnsweredDuration

\* the least element of a non-empty set of times
Earliest(S) == CHOOSE s \in S : \A t \in S : s <= t

\* C24: in every recommendation the attending set is the set of users who
\* can attend at the earliest start option, which is the first candidate
\* start reaching the largest count, and the non-attending set is the rest
\* of the fetched users at that start; a later candidate start is a start
\* option exactly when its count equals that of the attending set, whoever
\* the users are.
C24_SetsOfEarliestOption ==
    Answered =>
        \A i \in DOMAIN recommendations :
            LET r == recommendations[i]
                cands == CandidateStarts(r.TimeSlot, AnsweredDuration)
                most == {s \in cands :
                            \A t \in cands : AttendCount(reqEvent, t, AnsweredDuration)
                                                <= AttendCount(reqEvent, s, AnsweredDuration)}
                first == r.StartOptions[1]
            IN  /\ first = Earliest(most)
                /\ \A k \in DOMAIN r.StartOptions : first <= r.StartOptions[k]
                /\ IDs(r.MatchingUsers) = Attending(reqEvent, first, AnsweredDuration)
                /\ IDs(r.NonMatchingUsers) =
                       IDs(FindAllUsersByEvent(reqEvent))
                           \ Attending(reqEvent, first, AnsweredDuration)
                /\ \A s \in cands :
                      s > first =>
                          (s \in Range(r.StartOptions)
                              <=> AttendCount(reqEvent, s, AnsweredDuration)
                                      = Len(r.MatchingUsers))

\* a recommendation with a later start option at which another user, and
\* not the one listed as attending, can attend
C24_Witness ==
    /\ Answered
    /\ \E i \in DOMAIN recommendations :
          LET r == recommendations[i]
          IN  \E k \in DOMAIN r.StartOptions :
                  /\ k > 1
                  /\ Attending(reqEvent, r.StartOptions[k], AnsweredDuration)
                         # IDs(r.MatchingUsers)

\* C25: in every recommendation each user listed as attending can attend
\* at every listed start option: some existing interval of the user contains
\* the meeting placed at that start.
C25_AttendAtEveryOption ==
    Answered =>
        \A i \in DOMAIN recommendations :
            \A k \in DOMAIN recommendations[i].StartOptions :
                \A u \in IDs(recommendations[i].MatchingUsers) :
                    HasInterval(u, reqEvent, recommendations[i].StartOptions[k],
                                AnsweredDuration)

\* C26: once DeleteEvent(id) has succeeded, GetEvent(id) and
\* GetRecommendations(id) fail with "record not found" from then on, while
\* the time slots and availability records of the event stay stored; an
\* event that was created and not deleted is returned by GetEvent.
C26_DeletedEventNotFound ==
    /\ [](\A id \in DOMAIN events :
              IF events[id].Deleted
                THEN /\ GetEvent(id).err = gormRecordNotFound
                     /\ GetRecommendationsResult(id, NoFault)
                            = Failed(gormRecordNotFound)
                ELSE GetEvent(id) = [event |-> events[id], err |-> ""])
    /\ [](\A id \in DOMAIN events :
              (reqEvent = id /\ events[id].Deleted) =>
                  /\ err \in {gormRecordNotFound, gormQueryFailed}
                  /\ recommendations = <<>>)
    /\ [][\A id \in EventIDs :
              /\ DeleteEvent(id) =>
                    /\ err' = ""
                    /\ id \in DOMAIN events => events'[id].Deleted
                    /\ timeSlots' = timeSlots
                    /\ availabilities' = availabilities
              /\ (id \in DOMAIN events /\ events[id].Deleted) =>
                    (id \in DOMAIN events' /\ events'[id].Deleted)
              /\ (Live(events, id) /\ ~DeleteEvent(id)) => Live(events', id)]_vars

\* the recommendations of a deleted event were asked for and refused while
\* a time slot and an availability record of the event are stored
C26_Witness ==
    /\ reqEvent \in DOMAIN events
    /\ events[reqEvent].Deleted
    /\ err = gormRecordNotFound
    /\ GetEvent(reqEvent).err = gormRecordNotFound
    /\ TimeSlotFindByEventID(reqEvent) # <<>>
    /\ AvailabilityFindByEvent(reqEvent) # <<>>

\* the meeting of d minutes placed at s lies inside the record, boundaries
\* included
Contains(a, s, d) == a.StartTime <= s /\ s + d <= a.EndTime

\* C27: once DeleteTimeSlot(s) has succeeded no GetRecommendations result
\* has a recommendation for slot s, and once DeleteAvailability(a) has
\* succeeded record a makes its user attend at no candidate start: where
\* only a contains the meeting the user is found unavailable and is not in
\* the attending set taken at that start.
C27_DeletedRowsUnused ==
    /\ [](Answered =>
            LET d == AnsweredDuration
                fetched == FindAllUsersByEvent(reqEvent)
                availabilityMap == AvailabilityMap(AvailabilityFindByEvent(reqEvent))
            IN  /\ \A id \in DOMAIN timeSlots :
                      timeSlots[id].Deleted =>
                          \A i \in DOMAIN recommendations :
                              recommendations[i].TimeSlot.ID # id
                /\ \A id \in DOMAIN availabilities :
                      (availabilities[id].Deleted /\ availabilities[id].EventID = reqEvent) =>
                          \A slot \in SlotsOf(reqEvent) :
                              \A s \in CandidateStarts(slot, d) :
                                  (/\ Contains(availabilities[id], s, d)
                                   /\ ~HasInterval(availabilities[id].UserID, reqEvent, s, d))
                                      => /\ \A k \in DOMAIN fetched :
                                               fetched[k].ID = availabilities[id].UserID =>
                                                   ~Available(availabilityMap, fetched[k], s, s + d)
                                         /\ \A i \in RecsFor(slot) :
                                               recommendations[i].StartOptions[1] = s =>
                                                   availabilities[id].UserID
                                                       \notin IDs(recommendations[i].MatchingUsers))
    /\ [][/\ \A id \in 1..MaxSlots :
                /\ DeleteTimeSlot(id) =>
                      (err' = "" /\ (id \in DOMAIN timeSlots => timeSlots'[id].Deleted))
                /\ (id \in DOMAIN timeSlots /\ timeSlots[id].Deleted) =>
                      timeSlots'[id].Deleted
          /\ \A id \in 1..MaxAvail :
                /\ DeleteAvailability(id) =>
                      (err' = "" /\ (id \in DOMAIN availabilities
                                        => availabilities'[id].Deleted))
                /\ (id \in DOMAIN availabilities /\ availabilities[id].Deleted) =>
                      availabilities'[id].Deleted]_vars

\* a result given while a slot in which a user could attend is deleted and
\* while a deleted record is the only one of its user containing the
\* meeting at the first start option of a recommendation
C27_Witness ==
    /\ Answered
    /\ \E id \in DOMAIN timeSlots :
          /\ timeSlots[id].Deleted
          /\ timeSlots[id].EventID = reqEvent
          /\ \E s \in CandidateStarts(timeSlots[id], AnsweredDuration) :
                AttendCount(reqEvent, s, AnsweredDuration) > 0
    /\ \E id \in DOMAIN availabilities, i \in DOMAIN recommendations :
          /\ availabilities[id].Deleted
          /\ availabilities[id].EventID = reqEvent
          /\ Contains(availabilities[id], recommendations[i].StartOptions[1], AnsweredDuration)
          /\ availabilities[id].UserID \in IDs(recommendations[i].NonMatchingUsers)

\* what GetRecommendations returns for the event asked about once
\* CreateAvailability has stored one more record, from startTime to endTime,
\* for a user who has a record for the event (the users fetched are the same)
WithOneMore(u, startTime, endTime) ==
    LET allAvailabilities == AvailabilityFindByEvent(reqEvent)
    IN  RecommendationsOf(AnsweredDuration,
                          TimeSlotFindByEventID(reqEvent),
                          Append(allAvailabilities,
                                 AvailabilityRow(Len(availabilities) + 1, u, reqEvent,
                                                 startTime, endTime)),
                          FindAllUsersByEvent(reqEvent))

\* C28: one more availability interval for a user who already has
\* availability for the event leaves every recommended slot recommended,
\* with an attending count and a percentage at least what they were.
C28_MoreAvailabilityNeverHurts ==
    Answered =>
        \A u \in UsersWithAvailability(reqEvent), iv \in AvailIntervals :
            LET more == WithOneMore(u, iv[1], iv[2])
            IN  \A i \in DOMAIN recommendations :
                    \E j \in DOMAIN more :
                        /\ more[j].TimeSlot = recommendations[i].TimeSlot
                        /\ Len(more[j].MatchingUsers)
                               >= Len(recommendations[i].MatchingUsers)
                        /\ AtLeast(more[j].MatchingPercentage,
                                   recommendations[i].MatchingPercentage)

\* a recommended slot whose attending count rises with one more interval of
\* a user, the interval being too short for the meeting in another case
C28_Witness ==
    /\ Answered
    /\ \E u \in UsersWithAvailability(reqEvent), iv \in AvailIntervals :
          LET more == WithOneMore(u, iv[1], iv[2])
          IN  \E i \in DOMAIN recommendations, j \in DOMAIN more :
                  /\ more[j].TimeSlot = recommendations[i].TimeSlot
                  /\ Len(more[j].MatchingUsers) > Len(recommendations[i].MatchingUsers)
    /\ \E u \in IDs(recommendations[1].MatchingUsers), iv \in AvailIntervals :
          /\ iv[2] - iv[1] < AnsweredDuration + StepMinutes
          /\ WithOneMore(u, iv[1], iv[2]) = recommendations

\* every row the step creates or changes in the table belonged, or is
\* created as belonging, to an event other than e
WritesOthersOnly(table, tableNext, e) ==
    \A id \in DOMAIN tableNext :
        IF id \in DOMAIN table
          THEN tableNext[id] = table[id] \/ table[id].EventID # e
          ELSE tableNext[id].EventID # e

\* C29: a step that creates, updates or deletes only time slots and
\* availability records belonging to another event leaves what
\* GetRecommendations returns for the event as it was.
C29_OtherEventsInvisible ==
    [][\A e \in DOMAIN events :
          (/\ events' = events
           /\ users' = users
           /\ WritesOthersOnly(timeSlots, timeSlots', e)
           /\ WritesOthersOnly(availabilities, availabilities', e))
              => GetRecommendationsResult(e, NoFault)' = GetRecommendationsResult(e, NoFault)]_vars

\* the starts the walk of a slot evaluates, in the order it evaluates them:
\* the walk is run for one user whose single interval contains every
\* meeting it can try, so that each start it evaluates ties the best count
\* and is appended to the start options
Evaluated(slot, durationMinutes) ==
    IF TooShort(slot, durationMinutes)
      THEN <<>>
      ELSE LET always == AvailabilityRow(1, 1, slot.EventID, slot.StartTime,
                                         slot.EndTime + slot.EndTime)
           IN  WalkStarts(slot.StartTime, slot.EndTime - durationMinutes, durationMinutes,
                          <<UserRow(1)>>, AvailabilityMap(<<always>>), NoBest).startOptions

\* C30: for every stored slot the walk ends after evaluating
\* floor((span - duration) / 15) + 1 starts, none when the slot is shorter
\* than the event, each start once and in increasing order; and
\* GetRecommendations has a result for any event id in every state of the
\* store, an error or a list no longer than the list of slots.
C30_WalkLength ==
    /\ \A i \in DOMAIN timeSlots :
          LET slot == timeSlots[i]
              d == events[slot.EventID].DurationMinutes
              span == slot.EndTime - slot.StartTime
              walked == Evaluated(slot, d)
          IN  (slot.StartTime < slot.EndTime /\ d > 0) =>
                  /\ Len(walked) = IF span < d THEN 0
                                   ELSE ((span - d) \div StepMinutes) + 1
                  /\ \A k \in DOMAIN walked :
                        walked[k] = slot.StartTime + StepMinutes * (k - 1)
                  /\ Range(walked) = CandidateStarts(slot, d)
    /\ \A eventID \in ReqEventIDs :
          LET r == GetRecommendationsResult(eventID, NoFault)
          IN  /\ r.err \in {"", gormRecordNotFound}
              /\ Len(r.recommendations) <= Len(TimeSlotFindByEventID(eventID))

\* an answer over a slot shorter than the event and a slot whose room for
\* the start is not a whole number of steps, every start of which was
\* evaluated and is listed
C30_Witness ==
    /\ Answered
    /\ \E i \in DOMAIN timeSlots : TooShort(timeSlots[i], AnsweredDuration)
    /\ \E j \in DOMAIN recommendations :
          LET slot == recommendations[j].TimeSlot
          IN  /\ (slot.EndTime - slot.StartTime - AnsweredDuration) % StepMinutes # 0
              /\ Len(recommendations[j].StartOptions) >= 2
              /\ recommendations[j].StartOptions = Evaluated(slot, AnsweredDuration)

====
